---------------------------- MODULE Spec2Model ----------------------------
(***************************************************************************)
(* A model of the generic serialization engine of sv/serialize.h: the      *)
(* CompactSize and VarInt codecs, the fixed-width primitives, the chunked  *)
(* decode of length-prefixed sequences, LimitedBytes, std::map and         *)
(* std::set, and the size computation of CSizeComputer.                    *)
(*                                                                         *)
(* uint64_t / size_t / uintmax_t values are kept at their full width of 64 *)
(* bits.  A 64-bit value is a tuple of four 16-bit limbs, least            *)
(* significant limb first, because the model checker's integers are        *)
(* narrower than the program's.  All arithmetic on them wraps modulo 2^64  *)
(* as the C++ unsigned arithmetic does.  size_t is taken to be 64 bits     *)
(* wide (LP64), uintmax_t likewise.                                        *)
(***************************************************************************)
EXTENDS Integers, Sequences, FiniteSets, TLC

VARIABLES
    op,         \* the call under way
    pc,         \* position inside that call
    typ,        \* VarInt: the integer type I of the call
    val,        \* the value handed to a Write* call
    is,         \* source stream: its concrete bytes
    rpos,       \* source stream: number of bytes consumed so far
    os,         \* sink stream: the bytes written so far
    ret,        \* value returned by a Read* call
    err,        \* the exception that left the call, "none" if none
    v,          \* destination container of an Unserialize call
    nSize,      \* its local nSize: the declared length
    i,          \* its local i: elements read so far
    nMid,       \* its local nMid (element-wise path)
    blk,        \* its local blk (flat path)
    chunkSize,  \* its local chunkSize: the chunk budget in bytes
    step,       \* number of times the loop body has been entered
    elemSize,   \* sizeof(T)
    wireSize,   \* bytes one element takes in the source
    payload,    \* source stream: number of bytes that follow the bytes of "is"
    pread,      \* source stream: how many of those have been consumed
    badAt,      \* index of the element whose own Unserialize throws, if any
    grown,      \* the sizes the destination was resized to, with the budget after each
    Limit,      \* LimitedBytes: the template parameter Limit
    tally,      \* CSizeComputer: its nSize, the bytes counted
    mdest,      \* m: the destination std::map / std::set of an Unserialize call
    orig        \* the std::map / std::set handed to a Serialize call

cvars == <<op, pc, typ, val, is, rpos, os, ret, err>>

lvars == <<v, nSize, i, nMid, blk, chunkSize, step, elemSize, wireSize, payload, pread, badAt>>

xvars == <<grown, Limit, tally, mdest, orig>>

vars == <<op, pc, typ, val, is, rpos, os, ret, err,
          v, nSize, i, nMid, blk, chunkSize, step, elemSize, wireSize, payload, pread, badAt,
          grown, Limit, tally, mdest, orig>>

---------------------------------------------------------------------------
(* 64-bit unsigned arithmetic on four 16-bit limbs *)

Limb == 256 * 256

Byte == 0 .. 255

\* a value below 2^31 as a 64-bit value
U64(n) == <<n % Limb, (n \div Limb) % Limb, 0, 0>>

Zero64 == <<0, 0, 0, 0>>
One64 == <<1, 0, 0, 0>>

Lt64(a, b) ==
    \/ a[4] < b[4]
    \/ a[4] = b[4] /\ a[3] < b[3]
    \/ a[4] = b[4] /\ a[3] = b[3] /\ a[2] < b[2]
    \/ a[4] = b[4] /\ a[3] = b[3] /\ a[2] = b[2] /\ a[1] < b[1]

Le64(a, b) == a = b \/ Lt64(a, b)

Min64(a, b) == IF Lt64(b, a) THEN b ELSE a

\* a + b modulo 2^64
Add64(a, b) ==
    LET s1 == a[1] + b[1]
        s2 == a[2] + b[2] + (s1 \div Limb)
        s3 == a[3] + b[3] + (s2 \div Limb)
        s4 == a[4] + b[4] + (s3 \div Limb)
    IN  <<s1 % Limb, s2 % Limb, s3 % Limb, s4 % Limb>>

\* a - b modulo 2^64
Sub64(a, b) ==
    LET d1 == a[1] - b[1]
        d2 == a[2] - b[2] - (IF d1 < 0 THEN 1 ELSE 0)
        d3 == a[3] - b[3] - (IF d2 < 0 THEN 1 ELSE 0)
        d4 == a[4] - b[4] - (IF d3 < 0 THEN 1 ELSE 0)
    IN  <<d1 % Limb, d2 % Limb, d3 % Limb, d4 % Limb>>

\* a * m modulo 2^64, for a small multiplier 0 <= m < 2^14
Mul64(a, m) ==
    LET p1 == a[1] * m
        p2 == a[2] * m + (p1 \div Limb)
        p3 == a[3] * m + (p2 \div Limb)
        p4 == a[4] * m + (p3 \div Limb)
    IN  <<p1 % Limb, p2 % Limb, p3 % Limb, p4 % Limb>>

\* a / d rounded down, for a small divisor 0 < d < 2^15
Div64(a, d) ==
    LET q4 == a[4] \div d
        r4 == a[4] % d
        q3 == (r4 * Limb + a[3]) \div d
        r3 == (r4 * Limb + a[3]) % d
        q2 == (r3 * Limb + a[2]) \div d
        r2 == (r3 * Limb + a[2]) % d
        q1 == (r2 * Limb + a[1]) \div d
    IN  <<q1, q2, q3, q4>>

\* the low 16 / 32 bits of a value: the conversion to uint16_t / uint32_t
Trunc8(a) == a[1] % 256
Trunc16(a) == a[1]
Trunc32(a) == <<a[1], a[2]>>


---------------------------------------------------------------------------
(* Streams: a source is a byte sequence with a read position; s.read of n  *)
(* bytes yields them or throws the stream's end-of-data failure.           *)

StreamRead(s, pos, n) ==
    IF pos + n > Len(s)
    THEN [err |-> "underrun", bytes |-> <<>>, pos |-> pos]
    ELSE [err |-> "none", bytes |-> SubSeq(s, pos + 1, pos + n), pos |-> pos + n]

\* mutant: the bytes of a 16-bit value in big-endian order
htole16_Swapped(x) == <<x \div 256, x % 256>>

\* byte order conversions between a 16-bit value and its two bytes in memory
htole16(x) == <<x % 256, x \div 256>>
le16toh(b) == b[1] + 256 * b[2]

ser_writedata8(obj) == <<obj>>
ser_writedata16(obj) == htole16(obj)
ser_writedata32(obj) == htole16(obj[1]) \o htole16(obj[2])
ser_writedata64(obj) ==
    htole16(obj[1]) \o htole16(obj[2]) \o htole16(obj[3]) \o htole16(obj[4])

ser_readdata8(s, pos) ==
    LET r == StreamRead(s, pos, 1)
    IN  [err |-> r.err, pos |-> r.pos,
         v |-> IF r.err = "none" THEN r.bytes[1] ELSE 0]

ser_readdata16(s, pos) ==
    LET r == StreamRead(s, pos, 2)
    IN  [err |-> r.err, pos |-> r.pos,
         v |-> IF r.err = "none" THEN le16toh(r.bytes) ELSE 0]

ser_readdata32(s, pos) ==
    LET r == StreamRead(s, pos, 4)
    IN  [err |-> r.err, pos |-> r.pos,
         v |-> IF r.err = "none"
               THEN <<le16toh(SubSeq(r.bytes, 1, 2)), le16toh(SubSeq(r.bytes, 3, 4))>>
               ELSE <<0, 0>>]

ser_readdata64(s, pos) ==
    LET r == StreamRead(s, pos, 8)
    IN  [err |-> r.err, pos |-> r.pos,
         v |-> IF r.err = "none"
               THEN <<le16toh(SubSeq(r.bytes, 1, 2)), le16toh(SubSeq(r.bytes, 3, 4)),
                      le16toh(SubSeq(r.bytes, 5, 6)), le16toh(SubSeq(r.bytes, 7, 8))>>
               ELSE Zero64]

---------------------------------------------------------------------------
(* CompactSize *)

\* std::numeric_limits<uint32_t>::max()
MAX_SIZE == <<Limb - 1, Limb - 1, 0, 0>>

\* std::numeric_limits<uint16_t>::max() as a 64-bit value
USHRT_MAX64 == <<Limb - 1, 0, 0, 0>>

\* the bytes written to the sink, or the failure thrown before any is written
WriteCompactSize(n) ==
    IF Lt64(MAX_SIZE, n)
    THEN [err |-> "size too large", bytes |-> <<>>]
    ELSE IF Lt64(n, U64(253))
    THEN [err |-> "none", bytes |-> ser_writedata8(Trunc8(n))]
    ELSE IF Le64(n, USHRT_MAX64)
    THEN [err |-> "none", bytes |-> ser_writedata8(253) \o ser_writedata16(Trunc16(n))]
    ELSE IF Le64(n, MAX_SIZE)
    THEN [err |-> "none", bytes |-> ser_writedata8(254) \o ser_writedata32(Trunc32(n))]
    ELSE [err |-> "none", bytes |-> ser_writedata8(255) \o ser_writedata64(n)]

ReadFail(e, pos) == [err |-> e, v |-> Zero64, pos |-> pos]

\* mutant: no canonicality test at all
NonCanonical_Never(chSize, nSizeRet) == FALSE

\* mutant: the threshold of marker 253 copied to the wider markers
NonCanonical_Narrow(chSize, nSizeRet) ==
    chSize >= 253 /\ Lt64(nSizeRet, U64(253))

\* the three "non-canonical ReadCompactSize()" tests, by marker
NonCanonical(chSize, nSizeRet) ==
    \/ chSize = 253 /\ Lt64(nSizeRet, U64(253))
    \/ chSize = 254 /\ Lt64(nSizeRet, <<0, 1, 0, 0>>)
    \/ chSize = 255 /\ Lt64(nSizeRet, <<0, 0, 1, 0>>)

\* mutant: no ceiling on the decoded size
SizeTooLarge_Never(nSizeRet) == FALSE

\* the "ReadCompactSize(): size too large" test
SizeTooLarge(nSizeRet) == Lt64(MAX_SIZE, nSizeRet)

\* the payload read after the marker byte chSize, widened to 64 bits
ReadCompactPayload(s, pos, chSize) ==
    IF chSize < 253 THEN [err |-> "none", v |-> U64(chSize), pos |-> pos]
    ELSE IF chSize = 253 THEN
        LET r == ser_readdata16(s, pos)
        IN  [err |-> r.err, v |-> <<r.v, 0, 0, 0>>, pos |-> r.pos]
    ELSE IF chSize = 254 THEN
        LET r == ser_readdata32(s, pos)
        IN  [err |-> r.err, v |-> <<r.v[1], r.v[2], 0, 0>>, pos |-> r.pos]
    ELSE ser_readdata64(s, pos)

\* the value returned and the new read position, or the failure thrown
ReadCompactSize(s, pos) ==
    LET chSize == ser_readdata8(s, pos)
    IN  IF chSize.err # "none" THEN ReadFail(chSize.err, chSize.pos)
        ELSE
            LET r == ReadCompactPayload(s, chSize.pos, chSize.v)
                nSizeRet == r.v
            IN  IF r.err # "none" THEN ReadFail(r.err, r.pos)
                ELSE IF NonCanonical(chSize.v, nSizeRet) THEN ReadFail("non-canonical", r.pos)
                ELSE IF SizeTooLarge(nSizeRet) THEN ReadFail("size too large", r.pos)
                ELSE [err |-> "none", v |-> nSizeRet, pos |-> r.pos]

---------------------------------------------------------------------------
(* VarInt *)

\* the integral types I the VarInt templates are instantiated with
IntTypes == { [bits |-> b, signed |-> sg] : b \in {8, 16, 32, 64}, sg \in BOOLEAN }

\* number of value bits of I
ValueBits(I) == IF I.signed THEN I.bits - 1 ELSE I.bits

\* std::numeric_limits<I>::max() as a 64-bit value
NumericMax(I) ==
    LET w == ValueBits(I)
        l(k) == IF w >= 16 * k THEN Limb - 1
                ELSE IF w > 16 * (k - 1) THEN 2 ^ (w - 16 * (k - 1)) - 1
                ELSE 0
    IN  <<l(1), l(2), l(3), l(4)>>

\* the conversion of a uintmax_t to I at "return n": its low I.bits bits
ToType(I, n) ==
    IF I.bits = 8 THEN <<n[1] % 256, 0, 0, 0>>
    ELSE IF I.bits = 16 THEN <<n[1], 0, 0, 0>>
    ELSE IF I.bits = 32 THEN <<n[1], n[2], 0, 0>>
    ELSE n

\* n << 7 and n >> 7 on uintmax_t
Shl7(n) == Mul64(n, 128)
Shr7(n) == Div64(n, 128)

GetSizeOfVarInt(n) ==
    LET RECURSIVE count(_, _)
        count(m, nRet) ==
            IF Le64(m, U64(127)) THEN nRet + 1
            ELSE count(Sub64(Shr7(m), One64), nRet + 1)
    IN  count(n, 0)

\* mutant: plain base-128 groups, without the offset of one
VarIntTmp_NoOffset(n) ==
    LET RECURSIVE fill(_, _)
        fill(m, len) ==
            LET b == (m[1] % 128) + (IF len # 0 THEN 128 ELSE 0)
            IN  IF Le64(m, U64(127)) THEN <<b>>
                ELSE <<b>> \o fill(Shr7(m), len + 1)
    IN  fill(n, 0)

\* the array tmp as the first loop of WriteVarInt fills it: tmp[0] first
VarIntTmp(n) ==
    LET RECURSIVE fill(_, _)
        fill(m, len) ==
            LET b == (m[1] % 128) + (IF len # 0 THEN 128 ELSE 0)
            IN  IF Le64(m, U64(127)) THEN <<b>>
                ELSE <<b>> \o fill(Sub64(Shr7(m), One64), len + 1)
    IN  fill(n, 0)

\* the bytes WriteVarInt writes: tmp[len] down to tmp[0]
WriteVarInt(n) ==
    LET tmp == VarIntTmp(n)
    IN  [k \in 1 .. Len(tmp) |-> tmp[Len(tmp) + 1 - k]]

\* mutant: the limit compared before the shift is max(I) itself
VarIntOverflow_Unshifted(I) == NumericMax(I)

\* the static local "overflow" of ReadVarInt<I>
VarIntOverflow(I) == Shr7(NumericMax(I))

\* mutant: the byte count rounded down instead of up
VarIntMaxSize_Floor == (8 * 8) \div 7

\* (sizeof(n) * 8 + 6) / 7 with n of type uintmax_t
VarIntMaxSize == (8 * 8 + 6) \div 7

\* ReadVarInt<Stream, I>: n is the accumulator at the return statement, v the
\* value of type I it is converted to
ReadVarInt(I, s, pos0) ==
    LET RECURSIVE loop(_, _, _)
        loop(pos, n, iter) ==
            IF iter >= VarIntMaxSize THEN [err |-> "varint", v |-> Zero64, n |-> n, pos |-> pos]
            ELSE IF Lt64(VarIntOverflow(I), n)
            THEN [err |-> "varint", v |-> Zero64, n |-> n, pos |-> pos]
            ELSE
                LET chData == ser_readdata8(s, pos)
                    n2 == Add64(Shl7(n), U64(chData.v % 128))
                IN  IF chData.err # "none"
                    THEN [err |-> chData.err, v |-> Zero64, n |-> n, pos |-> chData.pos]
                    ELSE IF chData.v < 128
                    THEN [err |-> "none", v |-> ToType(I, n2), n |-> n2, pos |-> chData.pos]
                    ELSE loop(chData.pos, Add64(n2, One64), iter + 1)
    IN  loop(pos0, Zero64, 0)

---------------------------------------------------------------------------
(* Containers.  A destination (std::vector, prevector, std::basic_string) is *)
(* its size and what its elements hold: a list of runs, each saying that     *)
(* the elements dst .. dst+len-1 hold the wire elements src .. src+len-1     *)
(* (from = "wire") or what the container held before the call (from =       *)
(* "old"); elements in no run are value-initialized.                        *)

EmptyContainer == [size |-> Zero64, segs |-> <<>>]

\* v.clear()
Clear(c) == EmptyContainer

\* a run cut to the elements below n
ClipSeg(s, n) ==
    [s EXCEPT !.len = IF Lt64(n, Add64(s.dst, s.len)) THEN Sub64(n, s.dst) ELSE s.len]

\* v.resize(n): elements beyond n are dropped, new ones are value-initialized
Resize(c, n) ==
    LET kept == SelectSeq(c.segs, LAMBDA s : Lt64(s.dst, n))
    IN  [size |-> n, segs |-> [k \in 1 .. Len(kept) |-> ClipSeg(kept[k], n)]]

\* cnt elements read from the source, starting with wire element src, are
\* stored at v[at], v[at+1], ...; a run they cover entirely is replaced, a run
\* they continue is extended
Store(c, at, cnt, src) ==
    LET covered(s) == Le64(at, s.dst) /\ Le64(Add64(s.dst, s.len), Add64(at, cnt))
        rest == SelectSeq(c.segs, LAMBDA s : ~ covered(s))
        last == rest[Len(rest)]
        joins == /\ Len(rest) > 0
                 /\ last.from = "wire"
                 /\ Add64(last.dst, last.len) = at
                 /\ Add64(last.src, last.len) = src
    IN  IF cnt = Zero64 THEN c
        ELSE IF joins
        THEN [c EXCEPT !.segs = [rest EXCEPT ![Len(rest)].len = Add64(last.len, cnt)]]
        ELSE [c EXCEPT !.segs = Append(rest, [dst |-> at, len |-> cnt, src |-> src, from |-> "wire"])]

---------------------------------------------------------------------------
(* Chunked decode of vectors and prevectors; decode of strings *)

STARTING_CHUNK_SIZE == 16000000
CHUNK_GROWTH_RATE == 3

FlatOps == {"VectorFlat", "PrevectorFlat"}
ElemOps == {"VectorElem", "PrevectorElem"}
VecOps == FlatOps \cup ElemOps

\* no element fails to decode
NoBad == <<Limb - 1, Limb - 1, Limb - 1, Limb - 1>>

\* bytes of the source not yet consumed
SourceLeft == Sub64(payload, pread)

\* mutant: the budget divided by the element size, rounded down
ChunkElems_RoundedDown(budget, sz) == Div64(budget, sz)

\* size_t(1 + (chunkSize - 1) / sizeof(T))
ChunkElems(budget, sz) == Add64(One64, Div64(Sub64(budget, One64), sz))

\* v.clear(); size_t nSize = ReadCompactSize(is); i = 0; nMid = 0;
\* chunkSize = STARTING_CHUNK_SIZE
UnserializeBegin ==
    /\ UNCHANGED xvars
    /\ op \in VecOps
    /\ pc = "call"
    /\ LET r == ReadCompactSize(is, rpos)
       IN  /\ v' = Clear(v)
           /\ rpos' = r.pos
           /\ err' = r.err
           /\ nSize' = r.v
           /\ pc' = (IF r.err # "none" THEN "failed" ELSE "loop")
    /\ i' = Zero64
    /\ nMid' = Zero64
    /\ chunkSize' = U64(STARTING_CHUNK_SIZE)
    /\ UNCHANGED <<op, typ, val, is, os, ret, blk, step, elemSize, wireSize, payload, pread, badAt>>

\* flat path, first half of the loop body: blk, chunkSize *= rate, v.resize(i + blk)
FlatGrow ==
    /\ op \in FlatOps
    /\ pc = "loop"
    /\ Lt64(i, nSize)
    /\ blk' = Min64(Sub64(nSize, i), ChunkElems(chunkSize, elemSize))
    /\ chunkSize' = Mul64(chunkSize, CHUNK_GROWTH_RATE)
    /\ v' = Resize(v, Add64(i, blk'))
    /\ step' = step + 1
    /\ pc' = "read"
    /\ UNCHANGED <<op, typ, val, is, rpos, os, ret, err, nSize, i, nMid,
                   elemSize, wireSize, payload, pread, badAt>>
    /\ grown' = Append(grown, [size |-> v'.size, budget |-> chunkSize'])
    /\ UNCHANGED <<Limit, tally, mdest, orig>>

\* flat path, second half: is.read((char *)&v[i], blk * sizeof(T)); i += blk
FlatRead ==
    /\ UNCHANGED xvars
    /\ op \in FlatOps
    /\ pc = "read"
    /\ LET bytes == Mul64(blk, elemSize)
       IN  IF Le64(bytes, SourceLeft)
           THEN /\ v' = Store(v, i, blk, Div64(pread, elemSize))
                /\ pread' = Add64(pread, bytes)
                /\ i' = Add64(i, blk)
                /\ pc' = "loop"
                /\ err' = err
           ELSE /\ err' = "underrun"
                /\ pc' = "failed_read"
                /\ UNCHANGED <<v, pread, i>>
    /\ UNCHANGED <<op, typ, val, is, rpos, os, ret, nSize, nMid, blk, chunkSize, step,
                   elemSize, wireSize, payload, badAt>>

\* mutant: nMid is not clamped to nSize
ElemNextMid_Unclamped(mid, n, chunk) == Add64(mid, Min64(n, chunk))

\* nMid += std::min(nSize, chunk); if (nMid > nSize) nMid = nSize
ElemNextMid(mid, n, chunk) ==
    LET sum == Add64(mid, Min64(n, chunk))
    IN  IF Lt64(n, sum) THEN n ELSE sum

\* element-wise path, first half of the loop body: nMid, chunkSize *= rate,
\* v.resize(nMid)
ElemGrow ==
    /\ op \in ElemOps
    /\ pc = "loop"
    /\ Lt64(nMid, nSize)
    /\ nMid' = ElemNextMid(nMid, nSize, ChunkElems(chunkSize, elemSize))
    /\ v' = Resize(v, nMid')
    /\ chunkSize' = Mul64(chunkSize, CHUNK_GROWTH_RATE)
    /\ step' = step + 1
    /\ pc' = "read"
    /\ UNCHANGED <<op, typ, val, is, rpos, os, ret, err, nSize, i, blk,
                   elemSize, wireSize, payload, pread, badAt>>
    /\ grown' = Append(grown, [size |-> v'.size, budget |-> chunkSize'])
    /\ UNCHANGED <<Limit, tally, mdest, orig>>

\* element-wise path, second half: for (; i < nMid; i++) Unserialize(is, v[i]).
\* The loop stops at the first element whose bytes the source does not hold
\* (underrun) or whose own Unserialize throws (badAt).
ElemRead ==
    /\ UNCHANGED xvars
    /\ op \in ElemOps
    /\ pc = "read"
    /\ LET want == Sub64(nMid, i)
           held == Div64(SourceLeft, wireSize)
           sound == IF Le64(i, badAt) /\ Lt64(badAt, nMid) THEN Sub64(badAt, i) ELSE want
           k == Min64(want, Min64(held, sound))
       IN  /\ v' = Store(v, i, k, Div64(pread, wireSize))
           /\ pread' = Add64(pread, Mul64(k, wireSize))
           /\ i' = Add64(i, k)
           /\ pc' = (IF k = want THEN "loop" ELSE "failed_read")
           /\ err' = (IF k = want THEN err
                      ELSE IF k = held THEN "underrun" ELSE "element decode")
    /\ UNCHANGED <<op, typ, val, is, rpos, os, ret, nSize, nMid, blk, chunkSize, step,
                   elemSize, wireSize, payload, badAt>>

\* the loop condition is false: the function returns
LoopExit ==
    /\ UNCHANGED xvars
    /\ op \in VecOps
    /\ pc = "loop"
    /\ ~ Lt64(IF op \in FlatOps THEN i ELSE nMid, nSize)
    /\ pc' = "done"
    /\ UNCHANGED <<op, typ, val, is, rpos, os, ret, err>>
    /\ UNCHANGED lvars

\* Unserialize(Stream &, std::basic_string<C> &), first half:
\* nSize = ReadCompactSize(is); str.resize(nSize)
StringBegin ==
    /\ UNCHANGED xvars
    /\ op = "String"
    /\ pc = "call"
    /\ LET r == ReadCompactSize(is, rpos)
       IN  /\ rpos' = r.pos
           /\ err' = r.err
           /\ nSize' = r.v
           /\ v' = (IF r.err # "none" THEN v ELSE Resize(v, r.v))
           /\ pc' = (IF r.err # "none" THEN "failed"
                     ELSE IF r.v = Zero64 THEN "done" ELSE "read")
    /\ UNCHANGED <<op, typ, val, is, os, ret, i, nMid, blk, chunkSize, step,
                   elemSize, wireSize, payload, pread, badAt>>

\* second half: is.read((char *)&str[0], nSize * sizeof(str[0]));
\* i counts the characters obtained from the source
StringRead ==
    /\ UNCHANGED xvars
    /\ op = "String"
    /\ pc = "read"
    /\ LET bytes == Mul64(nSize, elemSize)
       IN  IF Le64(bytes, SourceLeft)
           THEN /\ v' = Store(v, Zero64, nSize, Div64(pread, elemSize))
                /\ pread' = Add64(pread, bytes)
                /\ i' = nSize
                /\ pc' = "done"
                /\ err' = err
           ELSE /\ err' = "underrun"
                /\ pc' = "failed_read"
                /\ UNCHANGED <<v, pread, i>>
    /\ UNCHANGED <<op, typ, val, is, rpos, os, ret, nSize, nMid, blk, chunkSize, step,
                   elemSize, wireSize, payload, badAt>>

---------------------------------------------------------------------------
(* Inputs *)

\* every value 0 .. SmallMax is tried
SmallMax == 260

\* longest run of continuation bytes offered to ReadVarInt
MaxRun == 11

\* values around the thresholds of the two codecs and of the integer types
BigValues ==
    { U64(16383), U64(16384), U64(16511), U64(16512), U64(32767), U64(32768),
      U64(65534), U64(65535), U64(65536), U64(65537), U64(2113663), U64(2113664),
      U64(16909060),
      <<Limb - 1, 32767, 0, 0>>, <<0, 32768, 0, 0>>,
      <<Limb - 2, Limb - 1, 0, 0>>, <<Limb - 1, Limb - 1, 0, 0>>,
      <<0, 0, 1, 0>>, <<1, 0, 1, 0>>, <<1800, 1286, 772, 258>>,
      <<Limb - 1, Limb - 1, Limb - 1, 32767>>, <<0, 0, 0, 32768>>,
      <<Limb - 2, Limb - 1, Limb - 1, Limb - 1>>,
      <<Limb - 1, Limb - 1, Limb - 1, Limb - 1>> }

Values64 == { U64(n) : n \in 0 .. SmallMax } \cup BigValues

\* bytes that follow the encoded value in the stream: unrelated later data
Trailer == <<171, 205>>

\* byte k (0 = least significant) of a 64-bit value
ByteOf(x, k) ==
    LET l == x[(k \div 2) + 1]
    IN  IF k % 2 = 0 THEN l % 256 ELSE l \div 256

\* the low w bytes of x, least significant first
LEBytes(x, w) == [k \in 1 .. w |-> ByteOf(x, k - 1)]

MarkerWidth(m) == IF m = 253 THEN 2 ELSE IF m = 254 THEN 4 ELSE 8

ButLast(b) == SubSeq(b, 1, Len(b) - 1)

\* sources offered to ReadCompactSize: every marker with every payload, whole,
\* cut short, and followed by later data; and every single byte
CompactSizeSources ==
    LET framed == { <<m>> \o LEBytes(x, MarkerWidth(m)) : m \in {253, 254, 255}, x \in Values64 }
        single == { <<b>> : b \in 0 .. 252 }
    IN  framed \cup single \cup { b \o Trailer : b \in framed \cup single }
        \cup { ButLast(b) : b \in framed \cup single }

\* sources offered to ReadVarInt<I>: the encoding of every value (also of values
\* beyond I's range), whole, cut short, followed by later data, with the
\* terminating byte turned into a continuation byte; and unterminated runs
VarIntSources ==
    LET enc == { WriteVarInt(x) : x \in Values64 }
        cont(b) == [b EXCEPT ![Len(b)] = (b[Len(b)] % 128) + 128]
        runs == { [k \in 1 .. j |-> c] : j \in 0 .. MaxRun, c \in {128, 255} }
    IN  enc \cup runs \cup { b \o Trailer : b \in enc } \cup { ButLast(b) : b \in enc }
        \cup { cont(b) \o x : b \in enc, x \in {<<>>, <<0>>, <<127>>, <<255, 255>>} }

\* what the destination holds before the call
OldSize == 3

Destinations ==
    { EmptyContainer,
      [size |-> U64(OldSize),
       segs |-> <<[dst |-> Zero64, len |-> U64(OldSize), src |-> Zero64, from |-> "old"]>>] }

\* declared lengths above MAX_SIZE: 2^32 and 2^40
AboveCeiling == {<<0, 0, 1, 0>>, <<0, 0, 256, 0>>}

\* declared lengths: small ones, and lengths around the element counts of the
\* first chunks for the element sizes tried
DeclaredLengths ==
    { U64(n) : n \in {0, 1, 2, 10, 252, 253, 666666, 666667, 666668, 2666668,
                      3999999, 4000000, 4000001, 15999999, 16000000, 16000001,
                      63999999, 64000000, 64000001, 208000001} }
    \cup AboveCeiling \cup {MAX_SIZE}

\* length prefixes: of every declared length (one above the ceiling), and some
\* that ReadCompactSize rejects
LengthPrefixes ==
    { ser_writedata8(255) \o ser_writedata64(n) : n \in AboveCeiling }
    \cup { WriteCompactSize(n).bytes : n \in DeclaredLengths \ AboveCeiling }
    \cup { <<>>, <<253, 0, 0>>, <<254, 1>> }

\* how many bytes follow the prefix in the source: none, a few, one chunk, and
\* around what the declared length asks for
PayloadSizes(prefix, ws) ==
    LET r == ReadCompactSize(prefix, 0)
        full == Mul64(r.v, ws)
    IN  IF r.err # "none" THEN { Zero64, U64(10) }
        ELSE { Zero64, U64(10), U64(STARTING_CHUNK_SIZE), full, Add64(full, U64(2)) }
             \cup (IF full = Zero64 THEN {} ELSE { Sub64(full, One64) })

ElemSizes == {1, 4, 24}

\* wire sizes of an element decoded by its own Unserialize
WireSizes(sz) == {sz, 3}

BadElements == { NoBad, Zero64, U64(7), U64(4000000), U64(16000005) }

CodecIdle ==
    /\ typ = [bits |-> 64, signed |-> FALSE]
    /\ val = Zero64 /\ os = <<>> /\ ret = Zero64

LocalsIdle ==
    /\ v = EmptyContainer
    /\ nSize = Zero64 /\ i = Zero64 /\ nMid = Zero64 /\ blk = Zero64
    /\ chunkSize = Zero64 /\ step = 0
    /\ elemSize = 1 /\ wireSize = 1
    /\ payload = Zero64 /\ pread = Zero64 /\ badAt = NoBad

ExtrasIdle ==
    /\ grown = <<>> /\ Limit = Zero64 /\ tally = 0 /\ mdest = {} /\ orig = {}

---------------------------------------------------------------------------
(* LimitedBytes<Limit, ArrayType>::Unserialize *)

\* mutant: no test of the declared length against Limit
LimitExceeded_Never(size, lim) == FALSE

\* size > Limit
LimitExceeded(size, lim) == Lt64(lim, size)

\* the bounds N tried
Limits == { U64(n) : n \in {0, 1, 10, 252, 4000000} }

LimitedBytesInit ==
    /\ op = "LimitedBytes"
    /\ pc = "call" /\ rpos = 0 /\ err = "none"
    /\ CodecIdle
    /\ v \in Destinations
    /\ elemSize = 1 /\ wireSize = 1
    /\ is \in LengthPrefixes
    /\ payload \in PayloadSizes(is, 1)
    /\ badAt = NoBad
    /\ nSize = Zero64 /\ i = Zero64 /\ nMid = Zero64 /\ blk = Zero64
    /\ chunkSize = Zero64 /\ step = 0 /\ pread = Zero64
    /\ Limit \in Limits
    /\ grown = <<>> /\ tally = 0 /\ mdest = {} /\ orig = {}

\* first half: size = ReadCompactSize(s); if (size > Limit) throw;
\* array.resize(size).  The local size is kept in nSize.
LimitedBytesBegin ==
    /\ op = "LimitedBytes"
    /\ pc = "call"
    /\ LET r == ReadCompactSize(is, rpos)
           over == r.err = "none" /\ LimitExceeded(r.v, Limit)
       IN  /\ rpos' = r.pos
           /\ nSize' = r.v
           /\ err' = (IF r.err # "none" THEN r.err
                      ELSE IF over THEN "limit exceeded" ELSE "none")
           /\ v' = (IF r.err # "none" \/ over THEN v ELSE Resize(v, r.v))
           /\ pc' = (IF r.err # "none" \/ over THEN "failed"
                     ELSE IF r.v = Zero64 THEN "done" ELSE "read")
    /\ UNCHANGED <<op, typ, val, is, os, ret, i, nMid, blk, chunkSize, step,
                   elemSize, wireSize, payload, pread, badAt>>
    /\ UNCHANGED xvars

\* second half: s.read((char*)&array[0], size); i counts the bytes obtained
LimitedBytesRead ==
    /\ op = "LimitedBytes"
    /\ pc = "read"
    /\ IF Le64(nSize, SourceLeft)
       THEN /\ v' = Store(v, Zero64, nSize, pread)
            /\ pread' = Add64(pread, nSize)
            /\ i' = nSize
            /\ pc' = "done"
            /\ err' = err
       ELSE /\ err' = "underrun"
            /\ pc' = "failed_read"
            /\ UNCHANGED <<v, pread, i>>
    /\ UNCHANGED <<op, typ, val, is, rpos, os, ret, nSize, nMid, blk, chunkSize, step,
                   elemSize, wireSize, payload, badAt>>
    /\ UNCHANGED xvars

---------------------------------------------------------------------------
(* Fixed-width primitives and bool *)

\* bool, kept with the integer types as a type of one value bit
BoolType == [bits |-> 1, signed |-> FALSE]

FixedTypes == IntTypes \cup {BoolType}

\* the values of a type as 64-bit patterns: a signed value is its
\* two's-complement bit pattern at the width of the type; bool is 0 or 1
FixedValues(I) ==
    IF I = BoolType THEN {Zero64, One64}
    ELSE { ToType(I, x) : x \in Values64 }

\* bytes a value of the type takes in a stream
FixedWidth(I) == IF I = BoolType THEN 1 ELSE I.bits \div 8

\* Serialize(Stream &, T a) for the integer types, and for bool: char f = a
SerializeFixed(I, a) ==
    IF I.bits \in {1, 8} THEN ser_writedata8(Trunc8(a))
    ELSE IF I.bits = 16 THEN ser_writedata16(Trunc16(a))
    ELSE IF I.bits = 32 THEN ser_writedata32(Trunc32(a))
    ELSE ser_writedata64(a)

\* mutant: only the byte 1 is true
BoolOf_OnlyOne(f) == IF f = 1 THEN One64 ELSE Zero64

\* bool a = f, for a char f
BoolOf(f) == IF f # 0 THEN One64 ELSE Zero64

\* Unserialize(Stream &, T &a) for the integer types, and for bool
UnserializeFixed(I, s, pos) ==
    IF I.bits \in {1, 8} THEN
        LET r == ser_readdata8(s, pos)
        IN  [err |-> r.err, pos |-> r.pos,
             v |-> IF I = BoolType THEN BoolOf(r.v) ELSE <<r.v, 0, 0, 0>>]
    ELSE IF I.bits = 16 THEN
        LET r == ser_readdata16(s, pos)
        IN  [err |-> r.err, pos |-> r.pos, v |-> <<r.v, 0, 0, 0>>]
    ELSE IF I.bits = 32 THEN
        LET r == ser_readdata32(s, pos)
        IN  [err |-> r.err, pos |-> r.pos, v |-> <<r.v[1], r.v[2], 0, 0>>]
    ELSE ser_readdata64(s, pos)

\* sources offered to Unserialize of a fixed-width type: every single byte,
\* the bytes of every value, whole, cut short, and followed by later data
FixedSources(I) ==
    LET whole == { LEBytes(x, FixedWidth(I)) : x \in Values64 }
                 \cup { <<b>> : b \in 0 .. 255 }
    IN  whole \cup { b \o Trailer : b \in whole } \cup { ButLast(b) : b \in whole }

FixedInit ==
    /\ op \in {"Fixed", "UnserializeFixed"}
    /\ typ \in FixedTypes
    /\ IF op = "Fixed"
       THEN val \in FixedValues(typ) /\ is = <<>>
       ELSE val = Zero64 /\ is \in FixedSources(typ)
    /\ pc = "call" /\ rpos = 0 /\ os = <<>> /\ ret = Zero64 /\ err = "none"
    /\ LocalsIdle
    /\ ExtrasIdle

\* Serialize(os, a); what is written is then the source of the Unserialize
SerializeFixedCall ==
    /\ op = "Fixed"
    /\ pc = "call"
    /\ os' = os \o SerializeFixed(typ, val)
    /\ is' = os' \o Trailer
    /\ pc' = "back"
    /\ UNCHANGED <<op, typ, val, rpos, ret, err>>
    /\ UNCHANGED lvars
    /\ UNCHANGED xvars

\* Unserialize(is, a)
UnserializeFixedCall ==
    /\ op \in {"Fixed", "UnserializeFixed"}
    /\ pc = (IF op = "UnserializeFixed" THEN "call" ELSE "back")
    /\ LET r == UnserializeFixed(typ, is, rpos)
       IN  /\ rpos' = r.pos
           /\ ret' = r.v
           /\ err' = r.err
           /\ pc' = (IF r.err = "none" THEN "done"
                     ELSE IF pc = "call" THEN "failed" ELSE "failed_back")
    /\ UNCHANGED <<op, typ, val, is, os>>
    /\ UNCHANGED lvars
    /\ UNCHANGED xvars

---------------------------------------------------------------------------
(* CSizeComputer *)

\* the tally of a CompactSize of nSizeIn
GetSizeOfCompactSize(nSizeIn) ==
    IF Lt64(nSizeIn, U64(253)) THEN 1
    ELSE IF Le64(nSizeIn, USHRT_MAX64) THEN 1 + 2
    ELSE IF Le64(nSizeIn, MAX_SIZE) THEN 1 + 4
    ELSE 1 + 8

\* CSizeComputer::write and CSizeComputer::seek: nSize += _nSize
SizeComputerAdd(total, n) == total + n

SizeOps == {"SizeOfCompactSize", "SizeOfVarInt", "SizeOfFixed"}

SizeInit ==
    /\ \/ /\ op = "SizeOfCompactSize"
          /\ typ = [bits |-> 64, signed |-> FALSE]
          /\ val \in Values64
       \/ /\ op = "SizeOfVarInt"
          /\ typ \in IntTypes
          /\ val \in { x \in Values64 : Le64(x, NumericMax(typ)) }
       \/ /\ op = "SizeOfFixed"
          /\ typ \in FixedTypes
          /\ val \in FixedValues(typ)
    /\ is = <<>>
    /\ pc = "call" /\ rpos = 0 /\ os = <<>> /\ ret = Zero64 /\ err = "none"
    /\ LocalsIdle
    /\ ExtrasIdle

\* the value written to a CSizeComputer: WriteCompactSize(CSizeComputer &, n)
\* and WriteVarInt(CSizeComputer &, n) seek by the computed size; a
\* fixed-width value goes through ser_writedata* to CSizeComputer::write
SizeComputerCall ==
    /\ op \in SizeOps
    /\ pc = "call"
    /\ tally' = SizeComputerAdd(tally,
                    IF op = "SizeOfCompactSize" THEN GetSizeOfCompactSize(val)
                    ELSE IF op = "SizeOfVarInt" THEN GetSizeOfVarInt(val)
                    ELSE Len(SerializeFixed(typ, val)))
    /\ pc' = "back"
    /\ UNCHANGED <<op, typ, val, is, rpos, os, ret, err>>
    /\ UNCHANGED lvars
    /\ UNCHANGED <<grown, Limit, mdest, orig>>

\* the same value written to a real sink
RealSinkCall ==
    /\ op \in SizeOps
    /\ pc = "back"
    /\ LET w == IF op = "SizeOfCompactSize" THEN WriteCompactSize(val)
                ELSE IF op = "SizeOfVarInt" THEN [err |-> "none", bytes |-> WriteVarInt(val)]
                ELSE [err |-> "none", bytes |-> SerializeFixed(typ, val)]
       IN  /\ os' = os \o w.bytes
           /\ err' = w.err
           /\ pc' = (IF w.err # "none" THEN "failed_back" ELSE "done")
    /\ UNCHANGED <<op, typ, val, is, rpos, ret>>
    /\ UNCHANGED lvars
    /\ UNCHANGED xvars

---------------------------------------------------------------------------
(* std::map and std::set.  Keys and mapped values are uint8_t.  A container *)
(* is the set of its entries, <<key, value>> for a map and <<key>> for a    *)
(* set, with no two entries of the same key.                                *)

\* longest list of entries offered on the wire
MaxEntries == 3

Keys == {0, 1, 2}
MappedValues == {10, 20}

SetOps == {"Set", "UnserializeSet"}
MapOps == {"Map", "UnserializeMap"}
AssocOps == MapOps \cup SetOps

\* every std::map<uint8_t, uint8_t> over the keys, as its set of entries
AllMaps ==
    UNION { { { <<k, f[k]>> : k \in ks } : f \in [ks -> MappedValues] } : ks \in SUBSET Keys }

\* every std::set<uint8_t> over the keys
AllSets == { { <<k>> : k \in ks } : ks \in SUBSET Keys }

\* the entries in the order the container iterates them: ascending keys
RECURSIVE InKeyOrder(_)
InKeyOrder(c) ==
    IF c = {} THEN <<>>
    ELSE LET first == CHOOSE e \in c : \A f \in c : e[1] <= f[1]
         IN  <<first>> \o InKeyOrder(c \ {first})

\* Serialize(os, p) of a pair: first, then second; Serialize(os, i) of a key
SerializeEntry(e) ==
    IF Len(e) = 2 THEN ser_writedata8(e[1]) \o ser_writedata8(e[2])
    ELSE ser_writedata8(e[1])

RECURSIVE SerializeEntries(_)
SerializeEntries(es) ==
    IF es = <<>> THEN <<>>
    ELSE SerializeEntry(Head(es)) \o SerializeEntries(Tail(es))

\* Serialize(os, m): WriteCompactSize(os, m.size()), then every entry
SerializeAssoc(c) ==
    LET w == WriteCompactSize(U64(Cardinality(c)))
    IN  [err |-> w.err,
         bytes |-> IF w.err # "none" THEN w.bytes
                   ELSE w.bytes \o SerializeEntries(InKeyOrder(c))]

\* Unserialize(is, item) of a pair: first, then second; of a key
UnserializeEntry(isSet, s, pos) ==
    LET k == ser_readdata8(s, pos)
    IN  IF k.err # "none" THEN [err |-> k.err, pos |-> k.pos, e |-> <<>>]
        ELSE IF isSet THEN [err |-> "none", pos |-> k.pos, e |-> <<k.v>>]
        ELSE LET x == ser_readdata8(s, k.pos)
             IN  IF x.err # "none" THEN [err |-> x.err, pos |-> x.pos, e |-> <<>>]
                 ELSE [err |-> "none", pos |-> x.pos, e |-> <<k.v, x.v>>]

\* mutant: the entry replaces the one of the same key
Insert_LastWins(c, e) == { f \in c : f[1] # e[1] } \cup {e}

\* m.insert(mi, item): inserted unless an entry of the same key is there
Insert(c, e) == IF \E f \in c : f[1] = e[1] THEN c ELSE c \cup {e}

\* mutant: the destination keeps its entries
ClearAssoc_Keep(c) == c

\* m.clear()
ClearAssoc(c) == {}

\* what the destination holds before the call: nothing, or two entries
AssocDestinations(isSet) ==
    IF isSet THEN { {}, { <<1>>, <<5>> } }
    ELSE { {}, { <<1, 30>>, <<5, 30>> } }

\* all lists of at most n entries
RECURSIVE EntryLists(_, _)
EntryLists(es, n) ==
    IF n = 0 THEN {<<>>}
    ELSE LET shorter == EntryLists(es, n - 1)
         IN  shorter \cup { Append(l, e) : l \in { x \in shorter : Len(x) = n - 1 }, e \in es }

\* sources offered to Unserialize: every count up to MaxEntries, and one
\* far above, before every list of entries, in any order, keys repeated
AssocSources(isSet) ==
    LET es == IF isSet THEN { <<k>> : k \in Keys }
              ELSE { <<k, x>> : k \in Keys, x \in MappedValues }
        counts == { U64(n) : n \in 0 .. MaxEntries } \cup {U64(70000)}
    IN  { WriteCompactSize(n).bytes \o SerializeEntries(l) :
              n \in counts, l \in EntryLists(es, MaxEntries) }

AssocInit ==
    /\ op \in AssocOps
    /\ pc = "call" /\ rpos = 0 /\ err = "none"
    /\ CodecIdle
    /\ LocalsIdle
    /\ grown = <<>> /\ Limit = Zero64 /\ tally = 0
    /\ mdest \in AssocDestinations(op \in SetOps)
    /\ IF op = "Map" THEN orig \in AllMaps /\ is = <<>>
       ELSE IF op = "Set" THEN orig \in AllSets /\ is = <<>>
       ELSE orig = {} /\ is \in AssocSources(op \in SetOps)

\* Serialize(os, m); what is written is then the source of the Unserialize
SerializeAssocCall ==
    /\ op \in {"Map", "Set"}
    /\ pc = "call"
    /\ LET w == SerializeAssoc(orig)
       IN  /\ os' = os \o w.bytes
           /\ is' = os'
           /\ err' = w.err
           /\ pc' = (IF w.err # "none" THEN "failed" ELSE "back")
    /\ UNCHANGED <<op, typ, val, rpos, ret>>
    /\ UNCHANGED lvars
    /\ UNCHANGED xvars

\* Unserialize(is, m), up to the loop: m.clear(); nSize = ReadCompactSize(is)
UnserializeAssocBegin ==
    /\ op \in AssocOps
    /\ pc = (IF op \in {"Map", "Set"} THEN "back" ELSE "call")
    /\ mdest' = ClearAssoc(mdest)
    /\ LET r == ReadCompactSize(is, rpos)
       IN  /\ rpos' = r.pos
           /\ err' = r.err
           /\ nSize' = r.v
           /\ pc' = (IF r.err = "none" THEN "loop"
                     ELSE IF pc = "call" THEN "failed" ELSE "failed_back")
    /\ i' = Zero64
    /\ UNCHANGED <<op, typ, val, is, os, ret, v, nMid, blk, chunkSize, step,
                   elemSize, wireSize, payload, pread, badAt>>
    /\ UNCHANGED <<grown, Limit, tally, orig>>

\* one turn of the loop: Unserialize(is, item); mi = m.insert(mi, item); i++
AssocInsert ==
    /\ op \in AssocOps
    /\ pc = "loop"
    /\ Lt64(i, nSize)
    /\ LET r == UnserializeEntry(op \in SetOps, is, rpos)
       IN  /\ rpos' = r.pos
           /\ err' = r.err
           /\ IF r.err # "none"
              THEN pc' = "failed_read" /\ UNCHANGED <<mdest, i>>
              ELSE /\ mdest' = Insert(mdest, r.e)
                   /\ i' = Add64(i, One64)
                   /\ pc' = "loop"
    /\ UNCHANGED <<op, typ, val, is, os, ret, v, nSize, nMid, blk, chunkSize, step,
                   elemSize, wireSize, payload, pread, badAt>>
    /\ UNCHANGED <<grown, Limit, tally, orig>>

\* the loop condition is false: the function returns
AssocExit ==
    /\ op \in AssocOps
    /\ pc = "loop"
    /\ ~ Lt64(i, nSize)
    /\ pc' = "done"
    /\ UNCHANGED <<op, typ, val, is, rpos, os, ret, err>>
    /\ UNCHANGED lvars
    /\ UNCHANGED xvars

---------------------------------------------------------------------------
(* The calls *)

Init ==
    \/ /\ op = "WriteCompactSize"
       /\ val \in Values64
       /\ typ = [bits |-> 64, signed |-> FALSE]
       /\ is = <<>>
       /\ pc = "call" /\ rpos = 0 /\ os = <<>> /\ ret = Zero64 /\ err = "none"
       /\ ExtrasIdle
       /\ LocalsIdle
    \/ /\ op = "ReadCompactSize"
       /\ is \in CompactSizeSources
       /\ typ = [bits |-> 64, signed |-> FALSE]
       /\ val = Zero64
       /\ pc = "call" /\ rpos = 0 /\ os = <<>> /\ ret = Zero64 /\ err = "none"
       /\ ExtrasIdle
       /\ LocalsIdle
    \/ /\ op = "WriteVarInt"
       /\ typ \in IntTypes
       /\ val \in { x \in Values64 : Le64(x, NumericMax(typ)) }
       /\ is = <<>>
       /\ pc = "call" /\ rpos = 0 /\ os = <<>> /\ ret = Zero64 /\ err = "none"
       /\ ExtrasIdle
       /\ LocalsIdle
    \/ /\ op = "ReadVarInt"
       /\ typ \in IntTypes
       /\ is \in VarIntSources
       /\ val = Zero64
       /\ pc = "call" /\ rpos = 0 /\ os = <<>> /\ ret = Zero64 /\ err = "none"
       /\ ExtrasIdle
       /\ LocalsIdle
    \/ /\ op \in FlatOps
       /\ pc = "call" /\ rpos = 0 /\ err = "none"
       /\ ExtrasIdle
       /\ CodecIdle
       /\ v \in Destinations
       /\ elemSize \in ElemSizes
       /\ wireSize = elemSize
       /\ is \in LengthPrefixes
       /\ payload \in PayloadSizes(is, wireSize)
       /\ badAt = NoBad
       /\ nSize = Zero64 /\ i = Zero64 /\ nMid = Zero64 /\ blk = Zero64
       /\ chunkSize = Zero64 /\ step = 0 /\ pread = Zero64
    \/ /\ op \in ElemOps
       /\ pc = "call" /\ rpos = 0 /\ err = "none"
       /\ ExtrasIdle
       /\ CodecIdle
       /\ v \in Destinations
       /\ elemSize \in ElemSizes
       /\ wireSize \in WireSizes(elemSize)
       /\ is \in LengthPrefixes
       /\ payload \in PayloadSizes(is, wireSize)
       /\ badAt \in BadElements
       /\ nSize = Zero64 /\ i = Zero64 /\ nMid = Zero64 /\ blk = Zero64
       /\ chunkSize = Zero64 /\ step = 0 /\ pread = Zero64
    \/ /\ op = "String"
       /\ pc = "call" /\ rpos = 0 /\ err = "none"
       /\ ExtrasIdle
       /\ CodecIdle
       /\ v \in Destinations
       /\ elemSize \in {1, 2, 4}
       /\ wireSize = elemSize
       /\ is \in LengthPrefixes
       /\ payload \in PayloadSizes(is, wireSize)
       /\ badAt = NoBad
       /\ nSize = Zero64 /\ i = Zero64 /\ nMid = Zero64 /\ blk = Zero64
       /\ chunkSize = Zero64 /\ step = 0 /\ pread = Zero64
    \/ LimitedBytesInit
    \/ FixedInit
    \/ SizeInit
    \/ AssocInit

\* A call of the codec that the run starts with is at "call"; the inverse call
\* that follows it, on what the first produced, is at "back".  An exception
\* leaves the first call at "failed" and the inverse call at "failed_back".
Failed(at) == IF at = "call" THEN "failed" ELSE "failed_back"

WriteCompactSizeCall ==
    /\ UNCHANGED xvars
    /\ op \in {"WriteCompactSize", "ReadCompactSize"}
    /\ pc = (IF op = "WriteCompactSize" THEN "call" ELSE "back")
    /\ LET w == WriteCompactSize(IF op = "WriteCompactSize" THEN val ELSE ret)
       IN  /\ os' = os \o w.bytes
           /\ err' = w.err
           /\ is' = (IF op = "WriteCompactSize" THEN w.bytes \o Trailer ELSE is)
           /\ pc' = (IF w.err # "none" THEN Failed(pc)
                     ELSE IF op = "WriteCompactSize" THEN "back" ELSE "done")
    /\ UNCHANGED <<op, typ, val, rpos, ret>>
    /\ UNCHANGED lvars

ReadCompactSizeCall ==
    /\ UNCHANGED xvars
    /\ op \in {"WriteCompactSize", "ReadCompactSize"}
    /\ pc = (IF op = "ReadCompactSize" THEN "call" ELSE "back")
    /\ LET r == ReadCompactSize(is, rpos)
       IN  /\ rpos' = r.pos
           /\ ret' = r.v
           /\ err' = r.err
           /\ pc' = (IF r.err # "none" THEN Failed(pc)
                     ELSE IF op = "ReadCompactSize" THEN "back" ELSE "done")
    /\ UNCHANGED <<op, typ, val, is, os>>
    /\ UNCHANGED lvars

WriteVarIntCall ==
    /\ UNCHANGED xvars
    /\ op \in {"WriteVarInt", "ReadVarInt"}
    /\ pc = (IF op = "WriteVarInt" THEN "call" ELSE "back")
    /\ LET w == WriteVarInt(IF op = "WriteVarInt" THEN val ELSE ret)
       IN  /\ os' = os \o w
           /\ is' = (IF op = "WriteVarInt" THEN w \o Trailer ELSE is)
           /\ pc' = (IF op = "WriteVarInt" THEN "back" ELSE "done")
    /\ UNCHANGED <<op, typ, val, rpos, ret, err>>
    /\ UNCHANGED lvars

ReadVarIntCall ==
    /\ UNCHANGED xvars
    /\ op \in {"WriteVarInt", "ReadVarInt"}
    /\ pc = (IF op = "ReadVarInt" THEN "call" ELSE "back")
    /\ LET r == ReadVarInt(typ, is, rpos)
       IN  /\ rpos' = r.pos
           /\ ret' = r.v
           /\ err' = r.err
           /\ pc' = (IF r.err # "none" THEN Failed(pc)
                     ELSE IF op = "ReadVarInt" THEN "back" ELSE "done")
    /\ UNCHANGED <<op, typ, val, is, os>>
    /\ UNCHANGED lvars

Next ==
    \/ WriteCompactSizeCall
    \/ ReadCompactSizeCall
    \/ WriteVarIntCall
    \/ ReadVarIntCall
    \/ UnserializeBegin
    \/ FlatGrow
    \/ FlatRead
    \/ ElemGrow
    \/ ElemRead
    \/ LoopExit
    \/ StringBegin
    \/ StringRead
    \/ LimitedBytesBegin
    \/ LimitedBytesRead
    \/ SerializeFixedCall
    \/ UnserializeFixedCall
    \/ SizeComputerCall
    \/ RealSinkCall
    \/ SerializeAssocCall
    \/ UnserializeAssocBegin
    \/ AssocInsert
    \/ AssocExit

Spec == Init /\ [][Next]_vars

---------------------------------------------------------------------------
(* Properties of the CompactSize codec *)

\* the first call has returned normally and nothing has run since
Returned == pc = "back"

\* the inverse call, run on the result of the first, has ended
BackEnded == pc \in {"done", "failed_back"}

\* C1: WriteCompactSize emits, for every value up to 2^32-1, exactly the fixed
\* wire form: the byte v below 253; 0xFD and v as 2 little-endian bytes up to
\* 65535; 0xFE and v as 4 little-endian bytes up to 2^32-1; with the five
\* table entries 0, 252, 253, 65535 and 65536.
C1_CompactSizeWireForm ==
    (op = "WriteCompactSize" /\ pc # "call" /\ Le64(val, MAX_SIZE)) =>
        /\ pc # "failed"
        /\ os = (IF Lt64(val, U64(253)) THEN <<val[1]>>
                 ELSE IF Le64(val, U64(65535)) THEN <<253>> \o LEBytes(val, 2)
                 ELSE <<254>> \o LEBytes(val, 4))
        /\ (val = U64(0) => os = <<0>>)
        /\ (val = U64(252) => os = <<252>>)
        /\ (val = U64(253) => os = <<253, 253, 0>>)
        /\ (val = U64(65535) => os = <<253, 255, 255>>)
        /\ (val = U64(65536) => os = <<254, 0, 0, 1, 0>>)

C1_Witness ==
    op = "WriteCompactSize" /\ Returned /\ val = U64(65536) /\ os = <<254, 0, 0, 1, 0>>

\* C2: CompactSize is a canonical bijection over 0..2^32-1: reading what was
\* written for v returns v and consumes exactly the written bytes; and
\* writing the value returned for an accepted source reproduces exactly the
\* bytes that were consumed.
C2_CompactSizeBijection ==
    /\ (op = "WriteCompactSize" /\ Le64(val, MAX_SIZE) /\ pc # "call") =>
            pc \in {"back", "done"}
    /\ (op = "WriteCompactSize" /\ BackEnded) =>
            /\ pc = "done"
            /\ ret = val
            /\ rpos = Len(os)
            /\ SubSeq(is, 1, rpos) = os
    /\ (op = "ReadCompactSize" /\ BackEnded) =>
            /\ pc = "done"
            /\ os = SubSeq(is, 1, rpos)

C2_Witness ==
    /\ op = "ReadCompactSize" /\ pc = "done"
    /\ is = <<254, 0, 0, 1, 0>> \o Trailer
    /\ ret = U64(65536) /\ rpos = 5 /\ os = <<254, 0, 0, 1, 0>>

\* a source that starts with a complete but non-minimal form
NonMinimalSource(b) ==
    /\ Len(b) >= 1
    /\ \/ b[1] = 253 /\ Len(b) >= 3 /\ b[2] + 256 * b[3] < 253
       \/ b[1] = 254 /\ Len(b) >= 5 /\ b[4] = 0 /\ b[5] = 0
       \/ b[1] = 255 /\ Len(b) >= 9 /\ \A k \in 6 .. 9 : b[k] = 0

\* C3: ReadCompactSize rejects every non-minimal form with the non-canonical
\* failure instead of returning a value: marker 253 with a payload below 253,
\* marker 254 with a payload below 2^16, marker 255 with a payload below 2^32;
\* in particular [0xFD,0x00,0x00].
C3_NonCanonicalRejected ==
    (op = "ReadCompactSize" /\ pc # "call" /\ NonMinimalSource(is)) =>
        /\ pc = "failed"
        /\ err = "non-canonical"
        /\ os = <<>>

C3_Witness ==
    op = "ReadCompactSize" /\ is = <<253, 0, 0>> /\ pc = "failed" /\ err = "non-canonical"

\* a source that starts with a complete form whose payload is above 2^32-1
\* (only the 8-byte payload of marker 255 is wide enough)
PayloadAboveCeiling(b) ==
    Len(b) >= 9 /\ b[1] = 255 /\ \E k \in 6 .. 9 : b[k] # 0

---------------------------------------------------------------------------
(* Properties of the VarInt codec *)

\* Natural numbers of up to 80 bits, five 16-bit limbs, for the value a byte
\* sequence denotes: wide enough for every sequence of up to 11 bytes, so that
\* nothing here wraps.
Wide(n) == <<n % Limb, (n \div Limb) % Limb, 0, 0, 0>>

WideOf64(a) == <<a[1], a[2], a[3], a[4], 0>>

WideAdd(a, b) ==
    LET s1 == a[1] + b[1]
        s2 == a[2] + b[2] + (s1 \div Limb)
        s3 == a[3] + b[3] + (s2 \div Limb)
        s4 == a[4] + b[4] + (s3 \div Limb)
        s5 == a[5] + b[5] + (s4 \div Limb)
    IN  <<s1 % Limb, s2 % Limb, s3 % Limb, s4 % Limb, s5>>

WideMul(a, m) ==
    LET p1 == a[1] * m
        p2 == a[2] * m + (p1 \div Limb)
        p3 == a[3] * m + (p2 \div Limb)
        p4 == a[4] * m + (p3 \div Limb)
        p5 == a[5] * m + (p4 \div Limb)
    IN  <<p1 % Limb, p2 % Limb, p3 % Limb, p4 % Limb, p5>>

WideLe(a, b) ==
    \/ a = b
    \/ \E k \in 1 .. 5 : a[k] < b[k] /\ \A j \in (k + 1) .. 5 : a[j] = b[j]

RECURSIVE WidePow128(_)
WidePow128(e) == IF e = 0 THEN Wide(1) ELSE WideMul(WidePow128(e - 1), 128)

\* the number the documentation of the format assigns to the bytes a[1..len]:
\* (a[len] & 0x7F) + sum(e = 1 .. len-1, 128^e * ((a[len-e] & 0x7F) + 1))
RECURSIVE DocSum(_, _)
DocSum(a, e) ==
    IF e = 0 THEN Wide(0)
    ELSE WideAdd(DocSum(a, e - 1), WideMul(WidePow128(e), (a[Len(a) - e] % 128) + 1))

DocValue(a) == WideAdd(Wide(a[Len(a)] % 128), DocSum(a, Len(a) - 1))

\* continuation bit set on every byte but the last, clear on the last
WellFormedVarInt(a) ==
    /\ Len(a) >= 1
    /\ \A k \in 1 .. (Len(a) - 1) : a[k] >= 128
    /\ a[Len(a)] < 128

\* C5: WriteVarInt emits, for every non-negative n of the type, the base-128
\* most-significant-group-first offset-by-one form: bit 7 set on every byte
\* but the last, the bytes denoting n by the documented formula; with the
\* table entries 0, 127, 128, 255 and 16511.
C5_VarIntWireForm ==
    (op = "WriteVarInt" /\ pc # "call") =>
        /\ pc # "failed"
        /\ WellFormedVarInt(os)
        /\ DocValue(os) = WideOf64(val)
        /\ Len(os) <= (typ.bits + 6) \div 7
        /\ (val = U64(0) => os = <<0>>)
        /\ (val = U64(127) => os = <<127>>)
        /\ (val = U64(128) => os = <<128, 0>>)
        /\ (val = U64(255) => os = <<128, 127>>)
        /\ (val = U64(16511) => os = <<255, 127>>)

C5_Witness ==
    op = "WriteVarInt" /\ Returned /\ val = U64(16511) /\ os = <<255, 127>>

\* C6: VarInt is a canonical bijection over 0..max(I): reading what was
\* written for n returns n and consumes exactly the written bytes, n = max(I)
\* included; and writing the value returned for an accepted source reproduces
\* exactly the bytes that were consumed.
C6_VarIntBijection ==
    /\ (op = "WriteVarInt" /\ BackEnded) =>
            /\ pc = "done"
            /\ ret = val
            /\ rpos = Len(os)
            /\ SubSeq(is, 1, rpos) = os
    /\ (op = "ReadVarInt" /\ BackEnded) =>
            /\ pc = "done"
            /\ os = SubSeq(is, 1, rpos)

C6_Witness ==
    /\ op = "WriteVarInt" /\ pc = "done"
    /\ typ = [bits |-> 64, signed |-> FALSE]
    /\ val = NumericMax(typ) /\ ret = val /\ rpos = 10
    /\ os = <<128, 254, 254, 254, 254, 254, 254, 254, 254, 127>>

\* the ReadVarInt call of the run has ended, normally or not
ReadVarIntEnded ==
    \/ op = "ReadVarInt" /\ pc # "call"
    \/ op = "WriteVarInt" /\ BackEnded

ReadVarIntAccepted ==
    \/ op = "ReadVarInt" /\ pc \in {"back", "done"}
    \/ op = "WriteVarInt" /\ pc = "done"

\* position of the first byte without the continuation bit, 0 if there is none
FirstTerminator(b) ==
    IF \E k \in 1 .. Len(b) : b[k] < 128
    THEN CHOOSE k \in 1 .. Len(b) : b[k] < 128 /\ \A j \in 1 .. (k - 1) : b[j] >= 128
    ELSE 0

\* the source starts with a terminated sequence that denotes more than max(I)
DenotesAboveMax(I, b) ==
    LET k == FirstTerminator(b)
    IN  /\ k > 0
        /\ k <= 11
        /\ ~ WideLe(DocValue(SubSeq(b, 1, k)), WideOf64(NumericMax(I)))

\* C7: ReadVarInt<I> is bounded by the width of I: a value it returns is the
\* number the consumed bytes denote, unwrapped, and is at most max(I); a
\* source denoting more than max(I) fails with the deserialisation error; and
\* on any source it consumes at most ceil(w/7) bytes, w the value bits of I.
C7_VarIntBounded ==
    /\ ReadVarIntAccepted =>
            /\ Le64(ret, NumericMax(typ))
            /\ rpos >= 1
            /\ DocValue(SubSeq(is, 1, rpos)) = WideOf64(ret)
    /\ (ReadVarIntEnded /\ DenotesAboveMax(typ, is)) =>
            pc = "failed" /\ err = "varint"
    /\ ReadVarIntEnded => rpos <= (ValueBits(typ) + 6) \div 7

\* the accumulator reaches 2^64-1 on the tenth byte and wraps to 0 on n++
C7_Witness ==
    /\ op = "ReadVarInt" /\ pc = "failed" /\ err = "varint"
    /\ typ = [bits |-> 64, signed |-> FALSE]
    /\ is = <<128, 254, 254, 254, 254, 254, 254, 254, 254, 255, 0>>
    /\ rpos = 10

---------------------------------------------------------------------------
(* Properties of the chunked decode *)

\* B_k: 16,000,000 bytes for the first chunk, three times the previous after
RECURSIVE Budget(_)
Budget(k) == IF k = 0 THEN U64(16000000) ELSE Mul64(Budget(k - 1), 3)

\* element count of chunk k: 1 + (B_k - 1) / sizeof(T)
ChunkOf(k) == Add64(One64, Div64(Sub64(Budget(k), One64), elemSize))

\* the first cnt elements hold the first cnt wire elements, in order, and
\* nothing else is held
InWireOrder(c, cnt) ==
    c.segs = IF cnt = Zero64 THEN <<>>
             ELSE <<[dst |-> Zero64, len |-> cnt, src |-> Zero64, from |-> "wire"]>>

\* the growth policy: cleared first; step k grows by min(remaining, chunk k);
\* the elements of a step are read before the next growth; the size never
\* exceeds the elements read plus the current chunk; normal end with all n
\* elements read in wire order
ChunkPolicy ==
    op \in VecOps =>
        /\ pc # "call" => InWireOrder(v, i) /\ Le64(i, nSize)
        /\ pc = "failed" => v.size = Zero64
        /\ pc = "loop" => v.size = i
        /\ pc = "read" =>
                /\ step >= 1
                /\ Lt64(i, nSize)
                /\ v.size = Add64(i, Min64(Sub64(nSize, i), ChunkOf(step - 1)))
        /\ pc = "failed_read" =>
                /\ Lt64(i, nSize)
                /\ Le64(v.size, Add64(i, ChunkOf(step - 1)))
        /\ pc = "done" => v.size = nSize /\ i = nSize

\* C8 as stated: the chunked-growth policy, and the loop ends exactly when
\* the destination holds the n elements or the source underruns.
C8_EndsFullOrOnUnderrun ==
    /\ ChunkPolicy
    /\ (op \in VecOps /\ pc = "failed_read") => err = "underrun"

\* C8 as amended: the chunked-growth policy, and the loop ends exactly when
\* the destination holds the n elements, or the source underruns, or (on the
\* element-wise path) the Unserialize of an element throws.
C8_ChunkedGrowth ==
    /\ ChunkPolicy
    /\ (op \in VecOps /\ pc = "failed_read") =>
            \/ err = "underrun"
            \/ err = "element decode" /\ op \in ElemOps /\ i = badAt

\* three chunks of 16,000,000, 48,000,000 and 1 one-byte elements
C8_Witness ==
    /\ op = "VectorElem" /\ pc = "done" /\ elemSize = 1
    /\ nSize = U64(64000001) /\ step = 3
    /\ v.size = nSize /\ InWireOrder(v, nSize)

\* C9: no decode of a length-prefixed byte blob sizes its destination from
\* the declared length alone: the destination of a std::basic_string (as of a
\* vector of bytes) never exceeds what has been obtained from the source by
\* more than the element count of the current chunk budget.
C9_BlobGrowthLimited ==
    (op \in FlatOps \cup {"String"} /\ pc \notin {"call", "failed"}) =>
        Le64(Sub64(v.size, i), ChunkOf(IF step = 0 THEN 0 ELSE step - 1))

\* C10: when a chunked vector or prevector decode fails partway, the
\* destination holds no more elements than were read: its size is the count
\* of elements read.
C10_NothingBeyondRead ==
    (op \in VecOps /\ pc \in {"failed", "failed_read"}) => v.size = i

---------------------------------------------------------------------------
(* A declared length of 2^40 *)

\* the length prefix that declares 2^40 elements: marker 255, then 2^40
Prefix2To40 == ser_writedata8(255) \o ser_writedata64(<<0, 0, 256, 0>>)

\* C11: decoding a vector of single-byte elements whose prefix declares 2^40
\* elements, from a source holding 10 payload bytes, fails with the underrun
\* error, and the destination is never grown beyond the element count of the
\* initial chunk budget.
C11_HugeLengthUnderruns ==
    (op = "VectorFlat" /\ elemSize = 1 /\ is = Prefix2To40 /\ payload = U64(10)) =>
        /\ pc # "call" => pc \in {"failed", "failed_read"} /\ err = "underrun"
        /\ Le64(v.size, ChunkOf(0))

---------------------------------------------------------------------------
(* Properties of LimitedBytes *)

\* the length a well-framed prefix declares, whatever its size
DeclaredLength(b) == ReadCompactPayload(b, 1, b[1]).v

\* the prefix holds its marker and the whole payload the marker announces,
\* in canonical form
WellFramed(b) ==
    /\ Len(b) >= 1
    /\ ReadCompactPayload(b, 1, b[1]).err = "none"
    /\ ~ NonCanonical(b[1], DeclaredLength(b))

\* the bound was exceeded: only the prefix is consumed, the array is as it was
RejectedUntouched(e) ==
    /\ pc' = "failed" /\ err' = e
    /\ rpos' = Len(is) /\ pread' = Zero64
    /\ v' = v

\* the declared length is within the bound: the array is resized to it, and
\* then exactly that many payload bytes are read
AcceptedStep ==
    /\ (op = "LimitedBytes" /\ pc = "call" /\ WellFramed(is)
            /\ Le64(DeclaredLength(is), Limit)) =>
           /\ v'.size = DeclaredLength(is) /\ nSize' = DeclaredLength(is)
           /\ rpos' = Len(is) /\ pread' = Zero64
           /\ pc' = (IF nSize' = Zero64 THEN "done" ELSE "read")
    /\ (op = "LimitedBytes" /\ pc = "read") =>
           \/ /\ pc' = "done" /\ pread' = nSize
              /\ v'.size = nSize /\ InWireOrder(v', nSize)
           \/ /\ pc' = "failed_read" /\ err' = "underrun"
              /\ Lt64(payload, nSize) /\ pread' = Zero64

---------------------------------------------------------------------------
(* Properties of the size computation and of the fixed-width primitives *)

\* C13: the tally of the size-computation sink equals the number of bytes
\* the same value writes to a real sink, for every value: every CompactSize
\* n, every VarInt n, every fixed-width primitive.
C13_TallyEqualsBytesWritten ==
    (op \in SizeOps /\ pc \in {"done", "failed_back"}) => tally = Len(os)

\* C15: a fixed-width integer is written as width/8 bytes, least significant
\* first, and reading them back returns the same bit pattern; a bool is
\* written as one byte 0 or 1, and on decode 0 is false and every other byte
\* is true.
C15_FixedWidthRoundTrip ==
    /\ (op = "Fixed" /\ pc # "call") => os = LEBytes(val, FixedWidth(typ))
    /\ (op = "Fixed" /\ pc \notin {"call", "back"}) =>
            pc = "done" /\ ret = val /\ rpos = FixedWidth(typ)
    /\ (op = "UnserializeFixed" /\ typ = BoolType /\ pc # "call" /\ Len(is) >= 1) =>
            /\ pc = "done" /\ rpos = 1
            /\ ret = (IF is[1] = 0 THEN Zero64 ELSE One64)

\* the int16_t -32768 is written as 00 80 and read back
C15_Witness ==
    /\ op = "Fixed" /\ pc = "done"
    /\ typ = [bits |-> 16, signed |-> TRUE] /\ val = U64(32768)
    /\ os = <<0, 128>> /\ ret = val

---------------------------------------------------------------------------
(* Properties of the map and set codecs *)

\* bytes of one entry on the wire
EntryWidth == IF op \in SetOps THEN 1 ELSE 2

\* entry j (from 1) of the entries that follow the first start bytes of b
EntryAt(b, start, j) ==
    SubSeq(b, start + (j - 1) * EntryWidth + 1, start + j * EntryWidth)

\* C14: Serialize of a map or set writes CompactSize(count) and then the
\* count entries in key order; Unserialize of those bytes into any
\* destination, empty or populated, yields a container equal to the one
\* serialized.
C14_AssocRoundTrip ==
    /\ (op \in {"Map", "Set"} /\ pc # "call") =>
            LET n == Cardinality(orig)
            IN  /\ Len(os) = 1 + n * EntryWidth
                /\ os[1] = n
                /\ { EntryAt(os, 1, j) : j \in 1 .. n } = orig
                /\ \A j \in 1 .. n - 1 : EntryAt(os, 1, j)[1] < EntryAt(os, 1, j + 1)[1]
    /\ (op \in {"Map", "Set"} /\ pc \notin {"call", "back", "loop"}) =>
            pc = "done" /\ mdest = orig /\ rpos = Len(os)

\* a map of three entries, one of them under a key the populated destination
\* held with another value
C14_Witness ==
    /\ op = "Map" /\ pc = "done"
    /\ orig = { <<0, 10>>, <<1, 20>>, <<2, 10>> }
    /\ os = <<3, 0, 10, 1, 20, 2, 10>>
    /\ mdest = orig

\* C17: a wire whose count entries repeat keys, in any order, is decoded with
\* success; all count entries are consumed; the container holds, for each
\* distinct key, the entry of its first occurrence; its size is the number of
\* distinct keys.
C17_FirstWins ==
    op \in {"UnserializeMap", "UnserializeSet"} =>
        LET r == ReadCompactSize(is, 0)
            n == r.v[1]
            held == (Len(is) - r.pos) \div EntryWidth
            first(j) == \A k \in 1 .. j - 1 : EntryAt(is, r.pos, k)[1] # EntryAt(is, r.pos, j)[1]
        IN  /\ (pc \notin {"call", "loop"} /\ r.err = "none" /\ Le64(r.v, U64(held))) =>
                    pc = "done"
            /\ pc = "done" =>
                    /\ rpos = r.pos + n * EntryWidth
                    /\ mdest = { EntryAt(is, r.pos, j) : j \in { x \in 1 .. n : first(x) } }
                    /\ Cardinality(mdest) =
                           Cardinality({ EntryAt(is, r.pos, j)[1] : j \in 1 .. n })

\* three pairs, unsorted, the key 2 twice: its first value is kept
C17_Witness ==
    /\ op = "UnserializeMap" /\ pc = "done"
    /\ is = <<3, 2, 10, 1, 20, 2, 20>>
    /\ rpos = 7
    /\ mdest = { <<2, 10>>, <<1, 20>> }

---------------------------------------------------------------------------
(* The two decode paths chunk alike *)

\* the size after k chunks of a decode that takes block = min(n - i, chunk):
\* a function of the declared length and the element size alone
RECURSIVE SizeAfter(_)
SizeAfter(k) ==
    IF k = 0 THEN Zero64
    ELSE LET before == SizeAfter(k - 1)
         IN  Add64(before, Min64(Sub64(nSize, before), ChunkOf(k - 1)))

\* C16: the flat path and the element-wise path chunk identically: for the
\* same declared length and element size, on either path the destination is
\* resized to the same sequence of sizes, the same number of elements is read
\* in each chunk, and the budget is tripled at the same points.
C16_SameChunking ==
    (op \in VecOps /\ pc # "call") =>
        /\ Len(grown) = step
        /\ \A k \in 1 .. step : grown[k] = [size |-> SizeAfter(k), budget |-> Budget(k)]
        /\ chunkSize = Budget(step)
        /\ pc \in {"loop", "done"} => i = SizeAfter(step)
        /\ pc = "read" => i = SizeAfter(step - 1)

\* the element-wise path on 64,000,001 elements of four bytes: chunks of
\* 4,000,000, 12,000,000, 36,000,000 and the remaining 12,000,001
C16_Witness ==
    /\ op = "PrevectorElem" /\ pc = "done" /\ elemSize = 4
    /\ nSize = U64(64000001) /\ step = 4
    /\ grown[1].size = U64(4000000) /\ grown[2].size = U64(16000000)
    /\ grown[3].size = U64(52000000) /\ grown[4].size = nSize
    /\ grown[4].budget = U64(1296000000)

===========================================================================
